---- MODULE Spec2Model ----
(***************************************************************************)
(* A model of statsd_writer (src/statsd_writer/__init__.py): the collectd  *)
(* plugin that parses a types database, builds dotted metric paths from    *)
(* collectd Values objects and sends them to statsd as gauges or timings.  *)
(*                                                                         *)
(* Python strings are TLA+ strings (Len, SubSeq and \o act on them         *)
(* character by character).  A Python value that may be None, a str or an  *)
(* int is a tagged record: PyNone, PyStr(s), PyInt(n).                     *)
(***************************************************************************)
EXTENDS Integers, Sequences, FiniteSets, TLC

VARIABLES
    fs,               \* the file system: path -> file content (lines) or Unreadable
    pc,               \* the host's position in the callback protocol
    config,           \* the configuration items handed to configure
    conf,             \* data['conf']
    typesPath,        \* the path configure handed to parse_types
    types,            \* data['types']
    stats,            \* data['stats']
    initRegistered,   \* collectd.register_init(initialize, ...) happened
    writeRegistered,  \* collectd.register_write(statsd_write, ...) happened
    startupError,     \* the exception configure or initialize ended in
    call,             \* the last call made: who called what with which arguments
    result            \* what that call did: emissions, log lines, outcome

vars == <<fs, pc, config, conf, typesPath, types, stats, initRegistered,
          writeRegistered, startupError, call, result>>

----------------------------------------------------------------------------
(* Bounds of the model.                                                    *)

\* the longest list of configuration items handed to configure
MaxItems == 2
\* the longest such list in the runs that go on to initialize and write
MaxHostItems == 1
\* the largest number of values a sample carries
MaxValues == 3

----------------------------------------------------------------------------
(* Python values.                                                          *)

PyNone == [t |-> "None"]
PyStr(s) == [t |-> "str", v |-> s]
PyInt(n) == [t |-> "int", v |-> n]

\* bool(x): None, the empty string and 0 are false
Truthy(x) ==
    CASE x.t = "None" -> FALSE
      [] x.t = "str"  -> x.v # ""
      [] x.t = "int"  -> x.v # 0

Min(a, b) == IF a < b THEN a ELSE b

----------------------------------------------------------------------------
(* Python's string methods, character by character.                        *)

CharAt(s, i) == SubSeq(s, i, i)

\* the characters str.strip() and str.split() take as whitespace
Whitespace == {" ", "\t", "\n"}

RECURSIVE LStrip(_)
LStrip(s) ==
    IF Len(s) > 0 /\ CharAt(s, 1) \in Whitespace
    THEN LStrip(SubSeq(s, 2, Len(s)))
    ELSE s

RECURSIVE RStrip(_)
RStrip(s) ==
    IF Len(s) > 0 /\ CharAt(s, Len(s)) \in Whitespace
    THEN RStrip(SubSeq(s, 1, Len(s) - 1))
    ELSE s

\* str.strip()
Strip(s) == LStrip(RStrip(s))

\* str.startswith(p)
StartsWith(s, p) == Len(s) >= Len(p) /\ SubSeq(s, 1, Len(p)) = p

\* str.replace(old, new) for a one-character old
RECURSIVE Replace(_, _, _)
Replace(s, old, new) ==
    IF s = "" THEN ""
    ELSE (IF CharAt(s, 1) = old THEN new ELSE CharAt(s, 1))
         \o Replace(SubSeq(s, 2, Len(s)), old, new)

\* the length of the longest prefix of s free of the characters of stop
RECURSIVE SpanUntil(_, _)
SpanUntil(s, stop) ==
    IF s = "" \/ CharAt(s, 1) \in stop THEN 0
    ELSE 1 + SpanUntil(SubSeq(s, 2, Len(s)), stop)

\* str.split(): the runs of non-whitespace characters, none of them empty
RECURSIVE SplitWhitespace(_)
SplitWhitespace(s) ==
    LET t == LStrip(s)
        n == SpanUntil(t, Whitespace)
    IN  IF t = "" THEN <<>>
        ELSE <<SubSeq(t, 1, n)>> \o SplitWhitespace(SubSeq(t, n + 1, Len(t)))

\* str.split(None, 1): split on the first run of whitespace
SplitFirstWhitespace(s) ==
    LET t == LStrip(s)
        n == SpanUntil(t, Whitespace)
        rest == LStrip(SubSeq(t, n + 1, Len(t)))
    IN  IF t = "" THEN <<>>
        ELSE IF rest = "" THEN <<SubSeq(t, 1, n)>>
        ELSE <<SubSeq(t, 1, n), rest>>

\* str.split(sep) for a one-character sep: empty fields are kept
RECURSIVE SplitOn(_, _)
SplitOn(s, sep) ==
    LET n == SpanUntil(s, {sep})
    IN  IF n = Len(s) THEN <<s>>
        ELSE <<SubSeq(s, 1, n)>> \o SplitOn(SubSeq(s, n + 2, Len(s)), sep)

\* sep.join(parts)
RECURSIVE Join(_, _)
Join(sep, parts) ==
    IF parts = <<>> THEN ""
    ELSE IF Len(parts) = 1 THEN parts[1]
    ELSE parts[1] \o sep \o Join(sep, Tail(parts))

----------------------------------------------------------------------------
(* parse_sources and parse_types.                                          *)

\* the keys parse_sources zips the colon-separated parts with
fields == <<"name", "type", "min", "max">>

\* dict(zip(fields, parts)): zip stops at the shorter of the two
ZipDict(keys, parts) ==
    LET n == Min(Len(keys), Len(parts))
    IN  [k \in {keys[i] : i \in 1..n} |->
            parts[CHOOSE i \in 1..n : keys[i] = k]]

parse_sources(sources) ==
    LET tokens == SplitWhitespace(Replace(sources, ",", " "))
    IN  [i \in 1..Len(tokens) |-> ZipDict(fields, SplitOn(tokens[i], ":"))]

\* a file that open() reads, as its lines, and one that open() fails on
File(lines) == [readable |-> TRUE, lines |-> lines]
Unreadable == [readable |-> FALSE]

\* the lines parse_types keeps, each split on its first run of whitespace
RECURSIVE SpecsOf(_)
SpecsOf(lines) ==
    IF lines = <<>> THEN <<>>
    ELSE LET line == Strip(Head(lines))
         IN  (IF line # "" /\ ~StartsWith(line, "#")
              THEN <<SplitFirstWhitespace(line)>> ELSE <<>>)
             \o SpecsOf(Tail(lines))

\* The outcome of parse_types(path): [ok |-> TRUE, types |-> the dictionary],
\* or [ok |-> FALSE, error |-> the exception].  Unpacking "name, sources"
\* from a line with a single field raises ValueError.
parse_types(file) ==
    IF ~file.readable THEN [ok |-> FALSE, error |-> "IOError"]
    ELSE LET specs == SpecsOf(file.lines)
             idx == 1..Len(specs)
         IN  IF \E i \in idx : Len(specs[i]) # 2
             THEN [ok |-> FALSE, error |-> "ValueError"]
             ELSE [ok |-> TRUE,
                   types |-> [name \in {specs[i][1] : i \in idx} |->
                       LET last == CHOOSE i \in idx :
                               /\ specs[i][1] = name
                               /\ \A j \in idx : specs[j][1] = name => j <= i
                       IN  parse_sources(specs[last][2])]]

----------------------------------------------------------------------------
(* stats_path and the writers.                                             *)
(*                                                                         *)
(* A Values object is a record [plugin, plugin_instance, type,             *)
(* type_instance, values]: plugin and type are strings, the two instances  *)
(* are PyNone or PyStr(s), values is the sequence of PyInt(n) collectd     *)
(* dispatched.  The sink (statsd.StatsClient) is PyNone or a client        *)
(* record; its gauge and timing calls are recorded as emissions, and the   *)
(* call for value index failAt raises.                                     *)

PyFloat(n) == [t |-> "float", v |-> n]

\* float(value)
Float(x) == PyFloat(x.v)

\* filter(None, seq): the elements whose truth value is true
FilterNone(seq) == SelectSeq(seq, Truthy)

\* stats_path filtering with "is not None" in place of truth
stats_path_none_only(values) ==
    LET kept == SelectSeq(<<PyStr(values.plugin),
                            values.plugin_instance,
                            PyStr(values.type),
                            values.type_instance>>,
                          LAMBDA x : x.t # "None")
    IN  Join(".", [i \in 1..Len(kept) |-> kept[i].v])

stats_path(values) ==
    LET kept == FilterNone(<<PyStr(values.plugin),
                             values.plugin_instance,
                             PyStr(values.type),
                             values.type_instance>>)
    IN  Join(".", [i \in 1..Len(kept) |-> kept[i].v])

\* what a call has done so far: the sink calls that went through, the lines
\* logged through collectd, and how the call ended
NoResult == [outcome |-> "none", emitted |-> <<>>, log |-> <<>>, path |-> PyNone]
Running == [NoResult EXCEPT !.outcome = "running"]

Emission(kind, path, value) == [kind |-> kind, path |-> path, value |-> value]
Info(plugin, path, value) ==
    [level |-> "info", plugin |-> plugin, path |-> path, value |-> value]
NoClientMessage == "Statsd client is None, not sending metrics!"
Warning(message) == [level |-> "warning", message |-> message]

\* SourceName reading types.get(type, ...) with a default in place of types[type]
SourceName_with_default(tdb, type, idx) ==
    IF type \notin DOMAIN tdb THEN [ok |-> TRUE, name |-> ""]
    ELSE IF idx + 1 > Len(tdb[type]) THEN [ok |-> FALSE, error |-> "IndexError"]
    ELSE [ok |-> TRUE, name |-> tdb[type][idx + 1]["name"]]

\* types[type][idx]['name'], idx counted from 0 as in the source
SourceName(tdb, type, idx) ==
    IF type \notin DOMAIN tdb THEN [ok |-> FALSE, error |-> "KeyError"]
    ELSE IF idx + 1 > Len(tdb[type]) THEN [ok |-> FALSE, error |-> "IndexError"]
    ELSE IF "name" \notin DOMAIN tdb[type][idx + 1]
         THEN [ok |-> FALSE, error |-> "KeyError"]
    ELSE [ok |-> TRUE, name |-> tdb[type][idx + 1]["name"]]

\* the loop of write_stats from value index idx on; base_path is a string here
RECURSIVE write_stats_loop(_, _, _, _, _, _, _)
write_stats_loop(values, tdb, base_path, client, failAt, idx, acc) ==
    IF idx >= Len(values.values) THEN [acc EXCEPT !.outcome = "returned"]
    ELSE
    LET value == Float(values.values[idx + 1])
        many == Len(values.values) > 1
        source == IF many THEN SourceName(tdb, values.type, idx)
                  ELSE [ok |-> TRUE, name |-> ""]
    IN  IF ~source.ok THEN [acc EXCEPT !.outcome = source.error]
        ELSE
        LET path == IF many THEN Join(".", <<base_path, source.name>>)
                    ELSE base_path
            logged == Append(acc.log, Info(values.plugin, path, value))
        IN  IF client.t # "None"
            THEN IF failAt = idx
                 THEN [acc EXCEPT !.log = logged, !.outcome = "SinkError"]
                 ELSE write_stats_loop(values, tdb, base_path, client, failAt,
                          idx + 1,
                          [acc EXCEPT !.log = logged,
                                      !.emitted = Append(@, Emission("gauge", path, value))])
            ELSE [acc EXCEPT !.log = Append(logged, Warning(NoClientMessage)),
                             !.outcome = "RuntimeError"]

\* write_stats returning quietly when there is no client
write_stats_silent_without_client(values, tdb, base_path, client, failAt) ==
    IF client.t = "None" THEN [Running EXCEPT !.outcome = "returned"]
    ELSE write_stats_loop(values, tdb,
             IF base_path.t = "None" THEN stats_path(values) ELSE base_path.v,
             client, failAt, 0, Running)

\* write_stats consulting the schema for a single value too
write_stats_suffix_always(values, tdb, base_path, client, failAt) ==
    LET r == write_stats_loop(values, tdb,
                 IF base_path.t = "None" THEN stats_path(values) ELSE base_path.v,
                 client, failAt, 0, Running)
    IN  IF Len(values.values) = 1 /\ values.type \notin DOMAIN tdb
        THEN [Running EXCEPT !.outcome = "KeyError"]
        ELSE r

\* write_stats(values, types, base_path=None, client=None): base_path is
\* PyNone or PyStr(s)
write_stats(values, tdb, base_path, client, failAt) ==
    write_stats_loop(values, tdb,
        IF base_path.t = "None" THEN stats_path(values) ELSE base_path.v,
        client, failAt, 0, Running)

\* s[3:]
DropThree(s) == SubSeq(s, 4, Len(s))

write_interface(values, tdb, client, failAt) ==
    LET path == Join(".", <<stats_path(values), DropThree(values.type)>>)
    IN  write_stats(values, tdb, PyStr(path), client, failAt)

RECURSIVE write_apache_loop(_, _, _, _, _)
write_apache_loop(values, client, failAt, idx, acc) ==
    IF idx >= Len(values.values) THEN [acc EXCEPT !.outcome = "returned"]
    ELSE
    LET value == values.values[idx + 1]
    IN  \* '.'.join of a tuple holding None raises TypeError
        IF values.plugin_instance.t # "str"
        THEN [acc EXCEPT !.outcome = "TypeError"]
        ELSE
        LET path == Join(".", <<values.plugin, values.plugin_instance.v>>)
            logged == Append(acc.log, Info(values.plugin, path, value))
        IN  IF client.t # "None"
            THEN IF failAt = idx
                 THEN [acc EXCEPT !.log = logged, !.outcome = "SinkError"]
                 ELSE write_apache_loop(values, client, failAt, idx + 1,
                          [acc EXCEPT !.log = logged,
                                      !.emitted = Append(@, Emission("timing", path, value))])
            ELSE [acc EXCEPT !.log = Append(logged, Warning(NoClientMessage)),
                             !.outcome = "RuntimeError"]

\* write_apache_worker_memory with the sink call wrapped in a try/except
write_apache_worker_memory_swallowing(values, tdb, client, failAt) ==
    LET r == write_apache_loop(values, client, failAt, 0, Running)
    IN  IF r.outcome = "SinkError" THEN [r EXCEPT !.outcome = "returned"] ELSE r

write_apache_worker_memory(values, tdb, client, failAt) ==
    write_apache_loop(values, client, failAt, 0, Running)

\* the names the module binds at its top level: globals()
Globals ==
    {"absolute_import", "division", "print_function", "unicode_literals",
     "dict", "int", "open", "filter", "zip", "collectd", "statsd", "DEFAULTS",
     "parse_sources", "parse_types", "configure", "initialize", "stats_path",
     "write_interface", "write_apache_worker_memory", "write_stats",
     "get_stats_writer", "statsd_write"}

\* get_stats_writer looking the plugin name itself up in globals()
get_stats_writer_bare_name(plugin) ==
    IF plugin \in Globals THEN plugin ELSE "write_stats"

get_stats_writer(plugin) ==
    LET name == "write_" \o plugin
    IN  IF name \in Globals THEN name ELSE "write_stats"

\* the call writer(values, types, client=client) for a writer's name
CallWriter(writer, values, tdb, client, failAt) ==
    CASE writer = "write_interface" ->
             write_interface(values, tdb, client, failAt)
      [] writer = "write_apache_worker_memory" ->
             write_apache_worker_memory(values, tdb, client, failAt)
      [] writer = "write_stats" ->
             write_stats(values, tdb, PyNone, client, failAt)

\* statsd_write(values, data): data is [types, stats]
statsd_write(values, data, failAt) ==
    CallWriter(get_stats_writer(values.plugin), values, data.types, data.stats, failAt)

----------------------------------------------------------------------------
(* configure and initialize.                                               *)

\* data[key] before the key is set, and a dictionary once it is
Missing == [t |-> "missing"]
Dict(d) == [t |-> "dict", d |-> d]

DefaultTypesDb == "/usr/share/collectd/types.db"

DEFAULTS ==
    [host |-> PyStr("localhost"),
     port |-> PyInt(8125),
     prefix |-> PyNone,
     typesdb |-> PyStr(DefaultTypesDb)]

UpperCase == "ABCDEFGHIJKLMNOPQRSTUVWXYZ"
LowerCase == "abcdefghijklmnopqrstuvwxyz"

\* the key used as it is written
Lower_missing(s) == s

\* str.lower()
RECURSIVE Lower(_)
Lower(s) ==
    IF s = "" THEN ""
    ELSE LET c == CharAt(s, 1)
             up == {i \in 1..Len(UpperCase) : CharAt(UpperCase, i) = c}
         IN  (IF up = {} THEN c ELSE CharAt(LowerCase, CHOOSE i \in up : TRUE))
             \o Lower(SubSeq(s, 2, Len(s)))

\* the loop of configure over config.children: acc is [conf, log]
RECURSIVE configure_loop(_, _)
configure_loop(children, acc) ==
    IF children = <<>> THEN acc
    ELSE
    LET item == Head(children)
        key == Lower(item.key)
        value_count == Len(item.values)
        warn(m) == [acc EXCEPT !.log = Append(@, Warning(m))]
    IN  IF key \notin DOMAIN DEFAULTS
        THEN configure_loop(Tail(children),
                 warn("Unexpected configuration key: " \o item.key \o "!"))
        ELSE IF value_count < 1
        THEN configure_loop(Tail(children),
                 warn("Must provide a value for configuration key: " \o item.key \o "!"))
        ELSE IF value_count > 1
        THEN configure_loop(Tail(children),
                 [acc EXCEPT !.log = @ \o
                     <<Warning("Too many values for configuration key: " \o item.key \o "!"),
                       [level |-> "warning", message |-> "Expected 1, got %i",
                        args |-> value_count]>>])
        ELSE configure_loop(Tail(children),
                 [acc EXCEPT !.conf[key] = item.values[1]])

\* open(path): the file system's file at a path that names one
Open(filesystem, path) ==
    IF path.t = "str" /\ path.v \in DOMAIN filesystem
    THEN filesystem[path.v] ELSE Unreadable

\* data['conf'].pop('typesdb'): the dictionary without the key
Pop(d, key) == [k \in DOMAIN d \ {key} |-> d[k]]

\* configure(config): what it leaves in data, whether it reached
\* register_init, and the exception it ended in
configure(children, filesystem) ==
    LET looped == configure_loop(children, [conf |-> DEFAULTS, log |-> <<>>])
        path == looped.conf["typesdb"]
        parsed == parse_types(Open(filesystem, path))
    IN  [conf |-> Pop(looped.conf, "typesdb"),
         log |-> looped.log,
         typesPath |-> path,
         types |-> IF parsed.ok THEN Dict(parsed.types) ELSE Missing,
         registered |-> parsed.ok,
         error |-> IF parsed.ok THEN "none" ELSE parsed.error]

Digits == "0123456789"

IsDigits(s) ==
    /\ s # ""
    /\ \A i \in 1..Len(s) : \E d \in 1..Len(Digits) : CharAt(Digits, d) = CharAt(s, i)

RECURSIVE DigitsValue(_)
DigitsValue(s) ==
    IF s = "" THEN 0
    ELSE 10 * DigitsValue(SubSeq(s, 1, Len(s) - 1))
         + (CHOOSE d \in 1..Len(Digits) : CharAt(Digits, d) = CharAt(s, Len(s))) - 1

\* int(x) for an int or a str of decimal digits; ValueError otherwise
int(x) ==
    CASE x.t = "int" -> [ok |-> TRUE, v |-> x.v]
      [] x.t = "str" /\ IsDigits(x.v) -> [ok |-> TRUE, v |-> DigitsValue(x.v)]
      [] OTHER -> [ok |-> FALSE]

\* initialize registering the write callback before it builds the client
initialize_registers_first(c, resolves) ==
    LET port == int(c["port"])
    IN  IF ~port.ok THEN [stats |-> Missing, registered |-> TRUE, error |-> "ValueError"]
        ELSE IF ~resolves
        THEN [stats |-> Missing, registered |-> TRUE, error |-> "SocketError"]
        ELSE [stats |-> [t |-> "client", host |-> c["host"], port |-> port.v,
                         prefix |-> c["prefix"]],
              registered |-> TRUE,
              error |-> "none"]

\* initialize(data): resolves says whether statsd.StatsClient(...) returns
\* (it resolves the host name) or raises
initialize(c, resolves) ==
    LET port == int(c["port"])
    IN  IF ~port.ok THEN [stats |-> Missing, registered |-> FALSE, error |-> "ValueError"]
        ELSE IF ~resolves
        THEN [stats |-> Missing, registered |-> FALSE, error |-> "SocketError"]
        ELSE [stats |-> [t |-> "client", host |-> c["host"], port |-> port.v,
                         prefix |-> c["prefix"]],
              registered |-> TRUE,
              error |-> "none"]

----------------------------------------------------------------------------
(* The inputs the model draws from.                                        *)

\* types databases: well formed; a data set with fewer sources and a name
\* defined twice; tokens with three and five parts and an unknown ds-type;
\* a line with a name alone; a source list holding only a comma; no file
WellFormedDb ==
    File(<<"# collectd types\n",
           "\n",
           "if_octets\trx:COUNTER:0:U, tx:COUNTER:0:U\n",
           "cpu  user:DERIVE:0:U, idle:DERIVE:0:U, wait:DERIVE:0:U, nice:DERIVE:0:U\n">>)
ShortDb ==
    File(<<"if_octets rx:DERIVE:0:U\n",
           "cpu value:GAUGE:0:100\n",
           "  # again\n",
           "cpu a:GAUGE:0:100,b:COUNTER:U:U">>)
MalformedDb ==
    File(<<"if_octets rx:COUNTER:0, tx:FOO:0:U:9\n">>)
NameOnlyDb ==
    File(<<"if_octets\n">>)
CommaDb ==
    File(<<"if_octets ,\n", "cpu value:GAUGE:0:U\n">>)
EmptyDb == File(<<>>)

TypesFiles ==
    {WellFormedDb, ShortDb, MalformedDb, NameOnlyDb, CommaDb, EmptyDb, Unreadable}

AltTypesDb == "/etc/types.db"

FileSystems ==
    {[p \in {DefaultTypesDb, AltTypesDb} |->
         IF p = DefaultTypesDb THEN f ELSE ShortDb] : f \in TypesFiles}

\* the dictionaries parse_types returns for those files
Schemas == {parse_types(f).types : f \in {g \in TypesFiles : parse_types(g).ok}}

Plugins == {"interface", "apache_worker_memory", "cpu", "stats"}
Instances == {PyNone, PyStr(""), PyStr("eth0")}
TypeNames == {"if_octets", "cpu"}
TypeInstances == {PyNone, PyStr(""), PyStr("idle")}
ValueLists == {[i \in 1..n |-> PyInt(10 * i)] : n \in 0..MaxValues}

Samples ==
    [plugin : Plugins, plugin_instance : Instances, type : TypeNames,
     type_instance : TypeInstances, values : ValueLists]

\* the samples stats_path alone is applied to
PathSamples == {v \in Samples : v.values = <<>>}

\* the samples the host dispatches in the callback protocol
HostSamples ==
    {v \in Samples :
        /\ v.plugin_instance = PyStr("eth0")
        /\ v.type_instance = PyNone
        /\ v.type = "if_octets"
        /\ v.plugin # "stats"
        /\ Len(v.values) = 2}

TestClient == [t |-> "client", host |-> PyStr("localhost"), port |-> 8125,
               prefix |-> PyNone]
Clients == {PyNone, TestClient}

\* the value index whose sink call raises; MaxValues: none does
FailAts == 0..MaxValues

ConfigKeys == {"Host", "PORT", "prefix", "TypesDB", "bogus"}
ConfigValues == {PyStr("statsd.local"), PyStr("8126"), PyStr(AltTypesDb)}
ConfigValueLists ==
    {<<>>} \cup {<<v>> : v \in ConfigValues}
           \cup {<<PyStr("8126"), PyStr("statsd.local")>>}
ConfigItems == [key : ConfigKeys, values : ConfigValueLists]

\* the lists of at most n configuration items
ConfigsUpTo(n) == UNION {[1..k -> ConfigItems] : k \in 0..n}

----------------------------------------------------------------------------
(* The state machine.                                                      *)

NoCall == [fn |-> "none"]

Init ==
    /\ fs \in FileSystems
    /\ pc = "start"
    /\ config = <<>>
    /\ conf = Missing
    /\ typesPath = PyNone
    /\ types = Missing
    /\ stats = Missing
    /\ initRegistered = FALSE
    /\ writeRegistered = FALSE
    /\ startupError = "none"
    /\ call = NoCall
    /\ result = NoResult

\* the host calls the registered config callback with the Module block
ConfigureFrom(configs) ==
    /\ pc = "start"
    /\ \E children \in configs : \E data \in {configure(children, fs)} :
            /\ config' = children
            /\ conf' = Dict(data.conf)
            /\ typesPath' = data.typesPath
            /\ types' = data.types
            /\ initRegistered' = data.registered
            /\ startupError' = data.error
            /\ pc' = IF data.error = "none" THEN "configured" ELSE "config_failed"
            /\ call' = [fn |-> "configure"]
            /\ result' = [NoResult EXCEPT
                              !.log = data.log,
                              !.outcome = IF data.error = "none"
                                          THEN "returned" ELSE data.error]
    /\ UNCHANGED <<fs, stats, writeRegistered>>

Configure == ConfigureFrom(ConfigsUpTo(MaxHostItems))

ConfigureAny == ConfigureFrom(ConfigsUpTo(MaxItems))

\* the host calls the init callback, if one was registered
Initialize ==
    /\ pc = "configured"
    /\ initRegistered
    /\ \E resolves \in BOOLEAN : \E data \in {initialize(conf.d, resolves)} :
            /\ stats' = data.stats
            /\ writeRegistered' = data.registered
            /\ startupError' = data.error
            /\ pc' = IF data.error = "none" THEN "initialized" ELSE "init_failed"
            /\ call' = [fn |-> "initialize"]
            /\ result' = [NoResult EXCEPT
                              !.outcome = IF data.error = "none"
                                          THEN "returned" ELSE data.error]
    /\ UNCHANGED <<fs, config, conf, typesPath, types, initRegistered>>

\* the host calls the write callback, if one was registered, with a sample
WriteCallback ==
    /\ writeRegistered
    /\ \E values \in HostSamples, failAt \in FailAts :
        /\ call' = [fn |-> "statsd_write", by |-> "host", values |-> values,
                    tdb |-> types, client |-> stats, failAt |-> failAt]
        /\ result' = statsd_write(values, [types |-> types.d, stats |-> stats], failAt)
    /\ UNCHANGED <<fs, pc, config, conf, typesPath, types, stats, initRegistered,
                   writeRegistered, startupError>>

Next == Configure \/ Initialize \/ WriteCallback

Spec == Init /\ [][Next]_vars

NextConfigure == ConfigureAny

SpecConfigure == Init /\ [][NextConfigure]_vars

\* a caller other than the host calls one function once
InitWriter == Init /\ fs = [p \in {DefaultTypesDb, AltTypesDb} |-> ShortDb]

CallStatsdWrite ==
    /\ call = NoCall
    /\ \E values \in Samples, tdb \in Schemas, client \in Clients, failAt \in FailAts :
        /\ call' = [fn |-> "statsd_write", by |-> "caller", values |-> values,
                    tdb |-> Dict(tdb), client |-> client, failAt |-> failAt]
        /\ result' = statsd_write(values, [types |-> tdb, stats |-> client], failAt)
    /\ UNCHANGED <<fs, pc, config, conf, typesPath, types, stats, initRegistered,
                   writeRegistered, startupError>>

Writers == {"write_stats", "write_interface", "write_apache_worker_memory"}

CallWriterDirectly ==
    /\ call = NoCall
    /\ \E writer \in Writers, values \in Samples, tdb \in Schemas,
          client \in Clients, failAt \in FailAts :
        /\ call' = [fn |-> writer, by |-> "caller", values |-> values,
                    tdb |-> Dict(tdb), client |-> client, failAt |-> failAt]
        /\ result' = CallWriter(writer, values, tdb, client, failAt)
    /\ UNCHANGED <<fs, pc, config, conf, typesPath, types, stats, initRegistered,
                   writeRegistered, startupError>>

CallStatsPath ==
    /\ call = NoCall
    /\ \E values \in PathSamples :
        /\ call' = [fn |-> "stats_path", by |-> "caller", values |-> values]
        /\ result' = [NoResult EXCEPT !.outcome = "returned",
                                      !.path = PyStr(stats_path(values))]
    /\ UNCHANGED <<fs, pc, config, conf, typesPath, types, stats, initRegistered,
                   writeRegistered, startupError>>

NextWriter == CallStatsdWrite \/ CallWriterDirectly \/ CallStatsPath

SpecWriter == InitWriter /\ [][NextWriter]_vars

----------------------------------------------------------------------------
(* What the claims speak of.                                               *)

\* a call of a writer, directly or through statsd_write, that has ended
IsWrite == call.fn \in Writers \cup {"statsd_write"}

\* the writer the dispatch is specified to choose for a plugin
SpecifiedWriter(plugin) ==
    CASE plugin = "interface" -> "write_interface"
      [] plugin = "apache_worker_memory" -> "write_apache_worker_memory"
      [] OTHER -> "write_stats"

\* the writer a write call runs
WriterOf(c) == IF c.fn = "statsd_write" THEN SpecifiedWriter(c.values.plugin) ELSE c.fn

NumValues(c) == Len(c.values.values)

SinkPresent(c) == c.client.t = "client"

\* the sink is present and none of its calls raises
SinkWorks(c) == SinkPresent(c) /\ c.failAt >= NumValues(c)

Present(x) == x.t = "str"

One(cond, s) == IF cond THEN <<s>> ELSE <<>>

\* the path components kept when only absent (None) components are dropped
PresentComponents(v) ==
    <<v.plugin>> \o One(Present(v.plugin_instance), v.plugin_instance.v)
                 \o <<v.type>>
                 \o One(Present(v.type_instance), v.type_instance.v)

\* the path components kept when absent and empty components are dropped
NonEmptyComponents(v) ==
    One(v.plugin # "", v.plugin)
    \o One(Present(v.plugin_instance) /\ v.plugin_instance.v # "", v.plugin_instance.v)
    \o One(v.type # "", v.type)
    \o One(Present(v.type_instance) /\ v.type_instance.v # "", v.type_instance.v)

\* the interface writer's base path without the metric-set name as a component
InterfaceBaseWithoutType(v) ==
    Join(".", <<v.plugin>> \o One(Present(v.plugin_instance), v.plugin_instance.v)
                           \o One(Present(v.type_instance), v.type_instance.v)
                           \o <<DropThree(v.type)>>)

\* the interface writer's base path with it
InterfaceBaseWithType(v) ==
    Join(".", NonEmptyComponents(v) \o <<DropThree(v.type)>>)

\* the names of the first n descriptors of the sample's schema entry
HasSources(c, n) ==
    /\ c.values.type \in DOMAIN c.tdb.d
    /\ Len(c.tdb.d[c.values.type]) >= n

\* gauges at base + "." + source name for each value of a multi-value sample,
\* at base alone for a single value
GaugesAt(c, base, n) ==
    [i \in 1..n |->
        Emission("gauge",
                 IF NumValues(c) > 1
                 THEN base \o "." \o c.tdb.d[c.values.type][i]["name"]
                 ELSE base,
                 PyFloat(c.values.values[i].v))]

OctetsSample ==
    [plugin |-> "interface", plugin_instance |-> PyStr("eth0"),
     type |-> "if_octets", type_instance |-> PyNone,
     values |-> <<PyInt(10), PyInt(20)>>]

\* the call of the spec's interface scenario: schema if_octets = [rx, tx]
IsOctetsCall ==
    /\ call.fn = "statsd_write"
    /\ call.values = OctetsSample
    /\ call.tdb.d = parse_types(WellFormedDb).types
    /\ SinkWorks(call)

(* C1: for a sample dispatched through statsd_write with plugin
   "interface" the metric-set name is not a path component: the base path is
   plugin, plugin_instance (if present), type_instance (if present), then the
   name without its first 3 characters; the if_octets sample emits exactly
   the gauges interface.eth0.octets.rx = 10 and interface.eth0.octets.tx = 20. *)
C1_BaseExcludesType ==
    (/\ call.fn = "statsd_write"
     /\ call.values.plugin = "interface"
     /\ SinkWorks(call)
     /\ NumValues(call) > 1 => HasSources(call, NumValues(call)))
    => /\ result.emitted =
              GaugesAt(call, InterfaceBaseWithoutType(call.values), NumValues(call))
       /\ IsOctetsCall =>
              result.emitted =
                  <<Emission("gauge", "interface.eth0.octets.rx", PyFloat(10)),
                    Emission("gauge", "interface.eth0.octets.tx", PyFloat(20))>>

(* C2, as stated: stats_path joins with "." the components plugin,
   plugin_instance, type, type_instance in that order and drops a component
   only when it is absent (None); an empty string is kept in its position,
   so plugin_instance = "" yields "cpu..cpu.idle". *)
C2_EmptyComponentKept ==
    call.fn = "stats_path"
    => /\ result.path = PyStr(Join(".", PresentComponents(call.values)))
       /\ (/\ call.values.plugin = "cpu"
           /\ call.values.plugin_instance = PyStr("")
           /\ call.values.type = "cpu"
           /\ call.values.type_instance = PyStr("idle"))
          => result.path = PyStr("cpu..cpu.idle")

(* C2, amended: stats_path joins with "." the components plugin,
   plugin_instance, type, type_instance in that fixed order, dropping a
   component when it is absent (None) or the empty string: plugin = "cpu",
   plugin_instance = "", type = "cpu", type_instance = "idle" yields
   "cpu.cpu.idle", the same as with plugin_instance absent. *)
C2_EmptyComponentDropped ==
    call.fn = "stats_path"
    => /\ result.path = PyStr(Join(".", NonEmptyComponents(call.values)))
       /\ (/\ call.values.plugin = "cpu"
           /\ call.values.plugin_instance \in {PyStr(""), PyNone}
           /\ call.values.type = "cpu"
           /\ call.values.type_instance = PyStr("idle"))
          => result.path = PyStr("cpu.cpu.idle")
       /\ (/\ call.values.plugin = "cpu"
           /\ call.values.plugin_instance = PyStr("eth0")
           /\ call.values.type = "cpu"
           /\ call.values.type_instance = PyStr("idle"))
          => result.path = PyStr("cpu.eth0.cpu.idle")

C2_Witness ==
    /\ call.fn = "stats_path"
    /\ call.values.plugin_instance = PyStr("")
    /\ call.values.type_instance = PyStr("idle")
    /\ result.path = PyStr("cpu.cpu.idle")

\* the ds-types the types database format allows
Kinds == {"ABSOLUTE", "COUNTER", "DERIVE", "GAUGE"}

\* the data-source tokens of the non-comment lines of a file
TokensOf(file) ==
    LET specs == SpecsOf(file.lines)
    IN  UNION {IF Len(specs[i]) < 2 THEN {}
               ELSE LET tokens == SplitWhitespace(Replace(specs[i][2], ",", " "))
                    IN  {tokens[j] : j \in 1..Len(tokens)}
               : i \in 1..Len(specs)}

Malformed(token) ==
    LET parts == SplitOn(token, ":")
    IN  Len(parts) # 4 \/ parts[2] \notin Kinds

\* the file configure handed to parse_types
ParsedFile == Open(fs, typesPath)

(* C3: parsing a types database fails with a parse error whenever some
   data-source token of a non-comment line has fewer or more than four
   colon-delimited fields or a kind outside ABSOLUTE, COUNTER, DERIVE, GAUGE;
   no schema is produced then, and every descriptor of a produced schema has
   exactly the fields name, type, min, max with a valid kind. *)
C3_MalformedTokenFails ==
    call.fn = "configure"
    => /\ (ParsedFile.readable /\ \E token \in TokensOf(ParsedFile) : Malformed(token))
          => (types = Missing /\ startupError # "none" /\ ~initRegistered)
       /\ types.t = "dict"
          => \A name \in DOMAIN types.d : \A i \in 1..Len(types.d[name]) :
                /\ DOMAIN types.d[name][i] = {"name", "type", "min", "max"}
                /\ types.d[name][i]["type"] \in Kinds

\* the value index at which a write call is due to fail, or the number of
\* values when it is due to return
FailIndex(c) ==
    LET n == NumValues(c)
        sources ==
            IF n <= 1 THEN n
            ELSE IF c.values.type \notin DOMAIN c.tdb.d THEN 0
            ELSE Len(c.tdb.d[c.values.type])
    IN  IF n = 0 THEN 0
        ELSE IF WriterOf(c) = "write_apache_worker_memory"
        THEN IF ~Present(c.values.plugin_instance) \/ ~SinkPresent(c) THEN 0
             ELSE Min(c.failAt, n)
        ELSE IF ~SinkPresent(c) THEN Min(sources, 0)
        ELSE Min(Min(c.failAt, sources), n)

\* the error a write call is due to end in ("returned": none)
FailKind(c) ==
    LET n == NumValues(c)
        k == FailIndex(c)
    IN  IF k >= n THEN "returned"
        ELSE IF WriterOf(c) = "write_apache_worker_memory"
        THEN IF ~Present(c.values.plugin_instance) THEN "TypeError"
             ELSE IF ~SinkPresent(c) THEN "RuntimeError" ELSE "SinkError"
        ELSE IF n > 1 /\ c.values.type \notin DOMAIN c.tdb.d THEN "KeyError"
        ELSE IF n > 1 /\ Len(c.tdb.d[c.values.type]) <= k THEN "IndexError"
        ELSE IF ~SinkPresent(c) THEN "RuntimeError" ELSE "SinkError"

\* handling the first value fails before the sink is looked at
FailsBeforeSink(c) ==
    IF WriterOf(c) = "write_apache_worker_memory"
    THEN ~Present(c.values.plugin_instance)
    ELSE NumValues(c) > 1 /\ ~HasSources(c, 1)

(* C4, as stated: with no sink (client is None) every write of a sample with
   at least one value, by any of the three writers, ends in the
   sink-unavailable error and delivers no emission. *)
C4_NoSinkRaisesSinkUnavailable ==
    (IsWrite /\ ~SinkPresent(call) /\ NumValues(call) >= 1)
    => (result.outcome = "RuntimeError" /\ result.emitted = <<>>)

(* C4, amended: with no sink (client is None) every write of a sample with
   at least one value, by any of the three writers, delivers no emission and
   never returns normally; it ends in the sink-unavailable error unless
   handling the first value fails before the sink is looked at: in the
   default and interface writers a multi-value sample whose type has no
   schema entry (KeyError) or an entry with no descriptor (IndexError), in
   the apache_worker_memory writer a sample whose plugin_instance is absent
   (TypeError). *)
C4_NoSinkNeverReturns ==
    (IsWrite /\ ~SinkPresent(call) /\ NumValues(call) >= 1)
    => /\ result.emitted = <<>>
       /\ result.outcome \notin {"returned", "SinkError"}
       /\ result.outcome = "RuntimeError" <=> ~FailsBeforeSink(call)
       /\ result.outcome = "TypeError"
            <=> (WriterOf(call) = "write_apache_worker_memory" /\ FailsBeforeSink(call))
       /\ result.outcome = "KeyError"
            <=> /\ WriterOf(call) # "write_apache_worker_memory"
                /\ NumValues(call) > 1
                /\ call.values.type \notin DOMAIN call.tdb.d
       /\ result.outcome = "IndexError"
            <=> /\ WriterOf(call) # "write_apache_worker_memory"
                /\ NumValues(call) > 1
                /\ call.values.type \in DOMAIN call.tdb.d
                /\ call.tdb.d[call.values.type] = <<>>

C4_Witness ==
    /\ call.fn = "write_stats"
    /\ ~SinkPresent(call)
    /\ NumValues(call) = 2
    /\ HasSources(call, 2)
    /\ result.outcome = "RuntimeError"
    /\ result.emitted = <<>>

(* C5: in the default and interface writers a sample with more than one
   value whose type has no schema entry makes the write fail with a
   schema-lookup error, with no emission delivered to the sink. *)
C5_MissingSchemaEntryFails ==
    (/\ IsWrite
     /\ WriterOf(call) \in {"write_stats", "write_interface"}
     /\ NumValues(call) > 1
     /\ call.values.type \notin DOMAIN call.tdb.d)
    => (result.outcome = "KeyError" /\ result.emitted = <<>>)

C5_Witness ==
    /\ call.fn = "write_interface"
    /\ SinkPresent(call)
    /\ call.failAt > 0
    /\ NumValues(call) = 3
    /\ call.values.type \notin DOMAIN call.tdb.d
    /\ result.outcome = "KeyError"

(* C6: the default writer, given n values, a sink and (for n > 1) a schema
   entry with at least n descriptors, emits exactly n gauges in value order
   on one base path: for n > 1 the i-th path is base.name of the i-th
   descriptor, for n = 1 it is the base alone and the schema is not
   consulted, so a single value succeeds with its type missing from the
   schema. *)
C6_DefaultWriterGauges ==
    (/\ IsWrite
     /\ WriterOf(call) = "write_stats"
     /\ SinkWorks(call)
     /\ NumValues(call) > 1 => HasSources(call, NumValues(call)))
    => /\ result.outcome = "returned"
       /\ result.emitted =
              GaugesAt(call, Join(".", NonEmptyComponents(call.values)), NumValues(call))
       /\ (NumValues(call) = 1 /\ call.values.plugin = "cpu"
              /\ ~Truthy(call.values.plugin_instance)
              /\ call.values.type = "cpu"
              /\ ~Truthy(call.values.type_instance))
          => result.emitted = <<Emission("gauge", "cpu.cpu", PyFloat(10))>>

C6_Witness ==
    /\ call.fn = "statsd_write"
    /\ call.values.plugin = "cpu"
    /\ SinkWorks(call)
    /\ NumValues(call) = 1
    /\ call.values.type \notin DOMAIN call.tdb.d
    /\ result.outcome = "returned"
    /\ Len(result.emitted) = 1

\* the timings of the apache_worker_memory writer for the first n values
TimingsAt(c, n) ==
    [i \in 1..n |->
        Emission("timing",
                 c.values.plugin \o "." \o c.values.plugin_instance.v,
                 c.values.values[i])]

AllOfKind(emitted, kind) == \A i \in 1..Len(emitted) : emitted[i].kind = kind

(* C7, as stated: statsd_write emits timings if and only if the plugin is
   exactly "apache_worker_memory": with a sink present each value of such a
   sample is emitted once, in order, as a timing at plugin.plugin_instance
   without a schema lookup, so the call succeeds whatever the schema holds;
   "interface" samples go to the interface writer, every other plugin to the
   default writer, and both produce only gauges. *)
C7_ApacheTimingsAlways ==
    call.fn = "statsd_write"
    => /\ (call.values.plugin = "apache_worker_memory" /\ SinkWorks(call))
          => /\ result.outcome = "returned"
             /\ Len(result.emitted) = NumValues(call)
             /\ AllOfKind(result.emitted, "timing")
             /\ Present(call.values.plugin_instance)
                    => result.emitted = TimingsAt(call, NumValues(call))
       /\ call.values.plugin # "apache_worker_memory"
          => AllOfKind(result.emitted, "gauge")

(* C7, amended: statsd_write emits timings only for the plugin
   "apache_worker_memory": with a sink present and plugin_instance present
   (a string, possibly empty) each value of such a sample is emitted once, in
   order and unconverted, as a timing at plugin + "." + plugin_instance
   without a schema lookup, so the call succeeds whatever the schema holds;
   with plugin_instance absent and at least one value the call ends in a
   TypeError with nothing emitted.  "interface" samples go to the interface
   writer, every other plugin to the default writer, and both produce only
   gauges. *)
C7_ApacheTimingsWithInstance ==
    call.fn = "statsd_write"
    => /\ (call.values.plugin = "apache_worker_memory" /\ SinkWorks(call))
          => IF Present(call.values.plugin_instance)
             THEN /\ result.outcome = "returned"
                  /\ result.emitted = TimingsAt(call, NumValues(call))
             ELSE /\ result.emitted = <<>>
                  /\ result.outcome =
                         IF NumValues(call) = 0 THEN "returned" ELSE "TypeError"
       /\ call.values.plugin = "apache_worker_memory"
          => AllOfKind(result.emitted, "timing")
       /\ call.values.plugin # "apache_worker_memory"
          => /\ AllOfKind(result.emitted, "gauge")
             /\ result =
                    CallWriter(IF call.values.plugin = "interface"
                               THEN "write_interface" ELSE "write_stats",
                               call.values, call.tdb.d, call.client, call.failAt)

C7_Witness ==
    /\ call.fn = "statsd_write"
    /\ call.values.plugin = "apache_worker_memory"
    /\ call.values.plugin_instance = PyStr("eth0")
    /\ SinkWorks(call)
    /\ NumValues(call) = 2
    /\ call.values.type \notin DOMAIN call.tdb.d
    /\ result.emitted =
           <<Emission("timing", "apache_worker_memory.eth0", PyInt(10)),
             Emission("timing", "apache_worker_memory.eth0", PyInt(20))>>

\* a key names an option when they agree character by character up to case
SameLetter(a, b) ==
    \/ a = b
    \/ \E i \in 1..Len(UpperCase) : CharAt(UpperCase, i) = a /\ CharAt(LowerCase, i) = b

NamesOption(key, option) ==
    /\ Len(key) = Len(option)
    /\ \A i \in 1..Len(key) : SameLetter(CharAt(key, i), CharAt(option, i))

\* the items of the configuration that set an option: the key is the option
\* up to case and there is exactly one value
SettingItems(option) ==
    {i \in 1..Len(config) :
        NamesOption(config[i].key, option) /\ Len(config[i].values) = 1}

\* the value of the last item that sets the option, or its default
LastSetting(option, default) ==
    IF SettingItems(option) = {} THEN default
    ELSE config[CHOOSE i \in SettingItems(option) :
                    \A j \in SettingItems(option) : j <= i].values[1]

(* C8: after configure has processed any sequence of items, each option
   (host, port, prefix, typesdb) holds the single value of the last item
   whose lower-cased key is that option and that has exactly one value, or
   its default (localhost, 8125, none, /usr/share/collectd/types.db); items
   with an unknown key, no value or several values change nothing and do not
   stop the processing of the items after them. *)
C8_LastSingleValueWins ==
    call.fn = "configure"
    => /\ conf.d["host"] = LastSetting("host", PyStr("localhost"))
       /\ conf.d["port"] = LastSetting("port", PyInt(8125))
       /\ conf.d["prefix"] = LastSetting("prefix", PyNone)
       /\ typesPath = LastSetting("typesdb", PyStr("/usr/share/collectd/types.db"))

C8_Witness ==
    /\ call.fn = "configure"
    /\ Len(config) = 2
    /\ config[1].key = "bogus"
    /\ config[2].key = "PORT"
    /\ config[2].values = <<PyStr("8126")>>
    /\ conf.d["port"] = PyStr("8126")
    /\ conf.d["host"] = PyStr("localhost")

(* C9: in the callback protocol the init callback is registered only after
   the schema has been loaded and the write callback only after the sink has
   been constructed: when loading the schema or constructing the sink fails,
   no write callback is registered, and every write the host makes through
   the registered callback sees a loaded schema and a sink, so it never ends
   in the sink-unavailable error. *)
C9_RegisteredOnlyWhenReady ==
    /\ initRegistered => (types.t = "dict" /\ pc # "config_failed")
    /\ writeRegistered
          => (initRegistered /\ types.t = "dict" /\ stats.t = "client"
                /\ pc = "initialized")
    /\ pc \in {"config_failed", "init_failed"}
          => (~writeRegistered /\ startupError # "none")
    /\ (call.fn = "statsd_write" /\ call.by = "host")
          => /\ call.tdb.t = "dict"
             /\ call.client.t = "client"
             /\ result.outcome # "RuntimeError"

C9_Witness ==
    /\ call.fn = "statsd_write"
    /\ call.by = "host"
    /\ pc = "initialized"
    /\ result.outcome = "returned"
    /\ Len(result.emitted) = 2

\* the first n emissions a write call is due to deliver
DueEmissions(c, n) ==
    CASE WriterOf(c) = "write_apache_worker_memory" -> TimingsAt(c, n)
      [] WriterOf(c) = "write_interface" ->
             GaugesAt(c, InterfaceBaseWithType(c.values), n)
      [] WriterOf(c) = "write_stats" ->
             GaugesAt(c, Join(".", NonEmptyComponents(c.values)), n)

InfoLines(log) == Len(SelectSeq(log, LAMBDA l : l.level = "info"))

(* C10: the emissions of one write call are a prefix of the sample's full
   emission sequence: when a writer fails at value index k (the sink call
   raises, or the schema entry of a multi-value sample has fewer than k + 1
   descriptors), exactly the emissions of the indices 0..k-1 have been
   delivered, once each and in order, the failing call is not retried, no
   later value is attempted, and the error reaches the caller. *)
C10_EmissionsArePrefix ==
    IsWrite
    => /\ result.emitted = DueEmissions(call, Min(FailIndex(call), NumValues(call)))
       /\ result.outcome = FailKind(call)
       /\ InfoLines(result.log) <= Len(result.emitted) + 1
       /\ result.outcome = "returned" => InfoLines(result.log) = NumValues(call)

C10_Witness ==
    /\ call.fn = "write_stats"
    /\ NumValues(call) = 3
    /\ SinkPresent(call)
    /\ call.failAt = 1
    /\ HasSources(call, 3)
    /\ result.outcome = "SinkError"
    /\ Len(result.emitted) = 1

====
